---- MODULE Spec2Model ----
(***************************************************************************)
(* The Trainer component of the fake-news detection pipeline               *)
(* (FakeNewsDetection-Pipeline/trainer.py): run_fn and the functions it    *)
(* calls, as a state machine.  One action per statement group of run_fn;   *)
(* model.fit is unfolded into its epochs and steps, with the three         *)
(* callbacks run_fn installs acting at the end of each epoch.              *)
(***************************************************************************)
EXTENDS Integers, Sequences, FiniteSets, TLC

VARIABLES
    pc,                  \* position of run_fn
    fn_args,             \* the FnArgs run_fn was called with
    world,               \* what lies outside the program: accuracy levels
    callbacks,           \* state of EarlyStopping and ModelCheckpoint
    tf_transform_output, \* path of the loaded transform graph (0: none)
    train_set,           \* dataset made by input_fn for fn_args.train_files
    eval_set,            \* dataset made by input_fn for fn_args.eval_files
    vectorizer_layer,    \* the TextVectorization layer
    model,               \* the keras model
    fit,                 \* position of model.fit
    valHist,             \* val_binary_accuracy of each finished epoch
    serving_model_dir,   \* what is at fn_args.serving_model_dir
    signatures,          \* the signatures dict of line 130
    written,             \* every write to serving_model_dir, in order
    phases,              \* the phases of run_fn, in the order they ended
    served               \* the last request answered by the exported model

vars == << pc, fn_args, world, callbacks, tf_transform_output, train_set,
           eval_set, vectorizer_layer, model, fit, valHist,
           serving_model_dir, signatures, written, phases, served >>

----------------------------------------------------------------------------
(* Bounds of the model *)

MaxEpochs == 3
MaxAcc == 2
MaxSteps == 2
MaxBatches == 2
MaxHidden == 2
MaxUnits == 2

(* Constants of the program *)

Patience == 10
MaxTokens == 5000
OutputSequenceLength == 500
EmbeddingInputDim == 5000
OutputUnits == 1

LABEL_KEY == "class"
FEATURE_KEY == "text"

NegInf == 0 - 1

----------------------------------------------------------------------------
(* Helpers *)

Max(a, b) == IF a >= b THEN a ELSE b
Min(a, b) == IF a <= b THEN a ELSE b

RECURSIVE SeqMax(_)
SeqMax(s) == IF s = << >> THEN NegInf
             ELSE Max(s[Len(s)], SeqMax(SubSeq(s, 1, Len(s) - 1)))

transformed_name(key) ==
    CASE key = "class" -> "class_xf"
      [] key = "text"  -> "text_xf"
      [] key = "title" -> "title_xf"

----------------------------------------------------------------------------
(* The transform graphs an upstream Transform stage can have left at        *)
(* fn_args.transform_graph_path.  A graph has the raw feature spec, the     *)
(* transformed feature spec and the preprocessing it applies to the text    *)
(* (shift).  Graph 3 reads its label from a raw key other than LABEL_KEY;   *)
(* graph 4 emits no transformed label.                                      *)

GraphPaths == 1..4

raw_feature_spec(path) ==
    CASE path = 1 -> [k \in {"text", "class"} |-> IF k = "class" THEN "int64" ELSE "string"]
      [] path = 2 -> [k \in {"text", "title", "class"} |-> IF k = "class" THEN "int64" ELSE "string"]
      [] path = 3 -> [k \in {"text", "label"} |-> IF k = "label" THEN "int64" ELSE "string"]
      [] path = 4 -> [k \in {"text", "class"} |-> IF k = "class" THEN "int64" ELSE "string"]

transformed_feature_spec(path) ==
    IF path = 4
    THEN [k \in {"text_xf"} |-> "string"]
    ELSE [k \in {"text_xf", "class_xf"} |-> IF k = "class_xf" THEN "int64" ELSE "string"]

(* Texts are runs of consecutive tokens: a text of len tokens starting at   *)
(* token start.  Tokens are numbered by their frequency rank in the corpus. *)
TokenSpace == MaxTokens + 3

TokenAt(text, i) == ((text.start + i - 2) % TokenSpace) + 1

(* transform_features_layer(): the preprocessing of graph `path` applied    *)
(* to parsed raw features; it yields the transformed text only, the label   *)
(* not being among the parsed features.                                     *)
transform_features_layer(path, parsed) ==
    [text_xf |-> [len   |-> parsed.text.len,
                  start |-> ((parsed.text.start - 1 + path) % TokenSpace) + 1]]

----------------------------------------------------------------------------
(* input_fn, lines 21-35 *)

NoDataset == [files |-> 0, graph |-> 0, num_epochs |-> 0, batches |-> 0,
              tokens |-> 0, label_key |-> "", ok |-> FALSE]

(* a repeat count other than the epoch count handed in *)
input_fn_other_count(file_pattern, tft_output, num_epochs) ==
    [files      |-> file_pattern.id,
     graph      |-> tft_output,
     num_epochs |-> num_epochs + 1,
     batches    |-> (num_epochs + 1) * file_pattern.batches,
     tokens     |-> file_pattern.tokens,
     label_key  |-> transformed_name(LABEL_KEY),
     ok         |-> transformed_name(LABEL_KEY) \in DOMAIN transformed_feature_spec(tft_output)]

input_fn(file_pattern, tft_output, num_epochs) ==
    LET transform_feature_spec == transformed_feature_spec(tft_output)
        label_key == transformed_name(LABEL_KEY)
    IN  [files      |-> file_pattern.id,
         graph      |-> tft_output,
         num_epochs |-> num_epochs,
         batches    |-> num_epochs * file_pattern.batches,
         tokens     |-> file_pattern.tokens,
         label_key  |-> label_key,
         ok         |-> label_key \in DOMAIN transform_feature_spec]

----------------------------------------------------------------------------
(* TextVectorization, lines 110-113 *)

NoVectorizer == [max_tokens |-> 0, output_sequence_length |-> 0,
                 vocab_size |-> 0, adapt_calls |-> 0, adapted_on |-> 0,
                 pending |-> 0]

(* max_tokens one larger than the embedding table *)
TextVectorization_wide ==
    [max_tokens |-> MaxTokens + 1, output_sequence_length |-> OutputSequenceLength,
     vocab_size |-> 2, adapt_calls |-> 0, adapted_on |-> 0, pending |-> 0]

TextVectorization ==
    [max_tokens |-> MaxTokens, output_sequence_length |-> OutputSequenceLength,
     vocab_size |-> 2, adapt_calls |-> 0, adapted_on |-> 0, pending |-> 0]

(* adapt: the vocabulary is the padding token, the OOV token and the most   *)
(* frequent tokens of the dataset, max_tokens entries at most.              *)
adapt(layer, dataset) ==
    [layer EXCEPT !.vocab_size  = Min(dataset.tokens + 2, layer.max_tokens),
                  !.adapt_calls = @ + 1,
                  !.adapted_on  = dataset.files]

(* The id of one token: 0 pads, 1 is out-of-vocabulary, the token of rank   *)
(* r has id r + 1.                                                          *)
TokenId(layer, token) ==
    IF token + 1 < layer.vocab_size THEN token + 1 ELSE 1

(* The layer applied to a text: output_sequence_length ids, truncated or    *)
(* padded with 0.                                                           *)
Vectorize(layer, text) ==
    [i \in 1..layer.output_sequence_length |->
        IF i <= text.len THEN TokenId(layer, TokenAt(text, i)) ELSE 0]

----------------------------------------------------------------------------
(* model_builder, lines 37-62 *)

Layer(kind, units, activation, rate, input_dim, name) ==
    [kind |-> kind, units |-> units, activation |-> activation,
     rate |-> rate, input_dim |-> input_dim, name |-> name]

RECURSIVE HiddenLayers(_, _)
HiddenLayers(n, hp) ==
    IF n <= 0 THEN << >>
    ELSE << Layer("Dense", hp.dense_units, "relu", 0, 0, ""),
            Layer("Dropout", 0, "", hp.dropout_rate, 0, "") >>
         \o HiddenLayers(n - 1, hp)

(* range(hp["hidden_layers"] + 1): one hidden block too many *)
model_builder_extra(hp) ==
    << Layer("Input", 1, "", 0, 0, transformed_name(FEATURE_KEY)),
       Layer("TextVectorization", 0, "", 0, 0, ""),
       Layer("Embedding", hp.embedding_size, "", 0, EmbeddingInputDim, ""),
       Layer("BidirectionalLSTM", hp.lstm_units, "", 0, 0, "") >>
    \o HiddenLayers(hp.hidden_layers + 1, hp)
    \o << Layer("Dense", OutputUnits, "sigmoid", 0, 0, "") >>

model_builder(hp) ==
    << Layer("Input", 1, "", 0, 0, transformed_name(FEATURE_KEY)),
       Layer("TextVectorization", 0, "", 0, 0, ""),
       Layer("Embedding", hp.embedding_size, "", 0, EmbeddingInputDim, ""),
       Layer("BidirectionalLSTM", hp.lstm_units, "", 0, 0, "") >>
    \o HiddenLayers(hp.hidden_layers, hp)
    \o << Layer("Dense", OutputUnits, "sigmoid", 0, 0, "") >>

NoModel == [built |-> FALSE, layers |-> << >>, weights |-> 0,
            stop_training |-> FALSE, tft_layer |-> 0]

(* The model called on transformed features: the text is vectorized, every  *)
(* id is looked up in the embedding table, and the rest of the network      *)
(* (weights) turns the ids into the prediction.                             *)
EmbeddingOf(layers) == layers[3]

Forward(layers, weights, ids) ==
    LET idset == {ids[i] : i \in DOMAIN ids}
    IN  [ids_len    |-> Len(ids),
         ids_min    |-> CHOOSE x \in idset : \A y \in idset : y >= x,
         ids_max    |-> CHOOSE x \in idset : \A y \in idset : y <= x,
         in_range   |-> \A x \in idset : x >= 0 /\ x < EmbeddingOf(layers).input_dim,
         width      |-> layers[Len(layers)].units,
         prediction |-> (weights + ids[1] + ids[2]) % 2]

ModelCall(layers, weights, vec, features) ==
    CHOOSE out \in {Forward(layers, weights, ids) :
                        ids \in {Vectorize(vec, features.text_xf)}} : TRUE

----------------------------------------------------------------------------
(* The callbacks of lines 89-101.  TensorBoard only writes logs and has no  *)
(* state here.  EarlyStopping(monitor val_binary_accuracy, mode max,        *)
(* patience 10) and ModelCheckpoint(serving_model_dir, monitor              *)
(* val_binary_accuracy, mode max, save_best_only) keep the best value seen. *)

NewCallbacks ==
    [es_best |-> NegInf, es_wait |-> 0, es_stopped_epoch |-> 0,
     es_patience |-> Patience, ck_best |-> NegInf]

(* mode="max": the monitored value improves when it is greater. *)
monitor_op(current, best) == current > best

(* EarlyStopping.on_epoch_end; yields the callback's state and whether it   *)
(* sets model.stop_training.                                                *)
EarlyStopping_on_epoch_end(cb, epoch, current) ==
    LET improved == monitor_op(current, cb.es_best)
        wait     == IF improved THEN 0 ELSE cb.es_wait + 1
        stop     == ~improved /\ wait >= cb.es_patience /\ epoch > 0
    IN  [cb   |-> [cb EXCEPT !.es_best = IF improved THEN current ELSE @,
                             !.es_wait = wait,
                             !.es_stopped_epoch = IF stop THEN epoch ELSE @],
         stop |-> stop]

(* ModelCheckpoint.on_epoch_end with save_best_only: whether the model is   *)
(* saved at the end of this epoch.                                          *)
(* save_best_only left out: the model is saved at the end of every epoch *)
ModelCheckpoint_saves_always(cb, current) == TRUE

ModelCheckpoint_saves(cb, current) == monitor_op(current, cb.ck_best)

ModelCheckpoint_on_epoch_end(cb, current) ==
    IF ModelCheckpoint_saves(cb, current)
    THEN [cb EXCEPT !.ck_best = current]
    ELSE cb

(* What a save leaves at fn_args.serving_model_dir: a SavedModel with its   *)
(* signatures.  A save handed signatures (line 135) stores them; a save     *)
(* handed none, as ModelCheckpoint's, stores under "serving_default" the    *)
(* function keras traces from the model's own call, which takes the         *)
(* transformed features and neither parses examples nor transforms them.    *)
(* `serving` is the function behind "serving_default".                      *)
NoServing == [fn |-> "", feature_spec |-> [k \in {} |-> ""], tft_layer |-> 0]

DefaultServing == [fn |-> "model_call", feature_spec |-> [k \in {} |-> ""],
                   tft_layer |-> 0]

NoArtifact == [writer |-> "", epoch |-> 0, weights |-> 0, signatures |-> {},
               serving |-> NoServing]

(* the signatures argument dropped by the save: only the default is stored *)
Artifact_unsigned(writer, epoch, weights, sigs) ==
    [writer |-> writer, epoch |-> epoch, weights |-> weights,
     signatures |-> {"serving_default"}, serving |-> DefaultServing]

Artifact(writer, epoch, weights, sigs) ==
    [writer |-> writer, epoch |-> epoch, weights |-> weights,
     signatures |-> IF DOMAIN sigs = {} THEN {"serving_default"} ELSE DOMAIN sigs,
     serving |-> IF "serving_default" \in DOMAIN sigs
                 THEN sigs["serving_default"] ELSE DefaultServing]

NoSignatures == [k \in {} |-> NoServing]

NoFit == [epoch |-> 0, step |-> 0, vstep |-> 0, iterator |-> 0,
          insufficient_data |-> FALSE]

NotServed == [done |-> FALSE, text |-> [len |-> 0, start |-> 1],
              with_label |-> FALSE, parse_spec |-> [k \in {} |-> ""],
              text_xf |-> [len |-> 0, start |-> 1],
              ids_len |-> 0, ids_min |-> 0, ids_max |-> 0,
              in_range |-> TRUE, width |-> 0, prediction |-> 0]

----------------------------------------------------------------------------
(* The calls of run_fn *)

Hyperparameters(E, es, lu, hl, du, dr) ==
    [epochs |-> E, embedding_size |-> es, lstm_units |-> lu,
     hidden_layers |-> hl, dense_units |-> du, dropout_rate |-> dr]

FnArgs(hp, ts, vs, path, train, eval) ==
    [hyperparameters |-> hp, train_steps |-> ts, eval_steps |-> vs,
     transform_graph_path |-> path, train_files |-> train, eval_files |-> eval]

Files(id, batches, tokens) == [id |-> id, batches |-> batches, tokens |-> tokens]

Text(len, start) == [len |-> len, start |-> start]

Start(args, w) ==
    /\ pc = "start"
    /\ fn_args = args
    /\ world = w
    /\ callbacks = NewCallbacks
    /\ tf_transform_output = 0
    /\ train_set = NoDataset
    /\ eval_set = NoDataset
    /\ vectorizer_layer = NoVectorizer
    /\ model = NoModel
    /\ fit = NoFit
    /\ valHist = << >>
    /\ serving_model_dir = NoArtifact
    /\ signatures = NoSignatures
    /\ written = << >>
    /\ phases = << >>
    /\ served = NotServed

(* run_fn called by the pipeline: any epoch count, step counts, transform   *)
(* graph and training files within the bounds.                              *)
Init ==
    \E E \in 1..MaxEpochs, ts \in 1..MaxSteps, vs \in 1..MaxSteps,
       path \in GraphPaths, b \in 1..MaxBatches :
        Start(FnArgs(Hyperparameters(E, 1, 1, 1, 1, 2), ts, vs, path,
                     Files(1, b, 3), Files(2, 1, 5)),
              [acc_levels |-> MaxAcc, texts |-> {Text(1, 1), Text(2, 3)}])

(* Lines 88-101 *)
DefineCallbacks ==
    /\ pc = "start"
    /\ callbacks' = NewCallbacks
    /\ pc' = "load"
    /\ UNCHANGED << fn_args, world, tf_transform_output, train_set, eval_set,
                    vectorizer_layer, model, fit, valHist, serving_model_dir,
                    signatures, written, phases, served >>

(* Line 104 *)
LoadTransformGraph ==
    /\ pc = "load"
    /\ tf_transform_output' = fn_args.transform_graph_path
    /\ phases' = Append(phases, "load")
    /\ pc' = "train_set"
    /\ UNCHANGED << fn_args, world, callbacks, train_set, eval_set,
                    vectorizer_layer, model, fit, valHist, serving_model_dir,
                    signatures, written, served >>

(* Line 105; make_batched_features_dataset raises when the label key is not *)
(* among the features.                                                       *)
CreateTrainSet ==
    /\ pc = "train_set"
    /\ LET ds == input_fn(fn_args.train_files, tf_transform_output,
                          fn_args.hyperparameters.epochs)
       IN  IF ds.ok
           THEN train_set' = ds /\ pc' = "eval_set"
           ELSE train_set' = train_set /\ pc' = "failed"
    /\ UNCHANGED << fn_args, world, callbacks, tf_transform_output, eval_set,
                    vectorizer_layer, model, fit, valHist, serving_model_dir,
                    signatures, written, phases, served >>

(* Line 106 *)
CreateEvalSet ==
    /\ pc = "eval_set"
    /\ eval_set' = input_fn(fn_args.eval_files, tf_transform_output,
                            fn_args.hyperparameters.epochs)
    /\ phases' = Append(phases, "datasets")
    /\ pc' = "vectorizer"
    /\ UNCHANGED << fn_args, world, callbacks, tf_transform_output, train_set,
                    vectorizer_layer, model, fit, valHist, serving_model_dir,
                    signatures, written, served >>

(* Lines 107-112: the dataset handed to adapt is the text feature of        *)
(* train_set, one pass over all its batches.                                *)
(* adapt handed the evaluation dataset *)
vectorizer_dataset_eval == eval_set

vectorizer_dataset == train_set

CreateVectorizer ==
    /\ pc = "vectorizer"
    /\ vectorizer_layer' = [TextVectorization EXCEPT !.pending = vectorizer_dataset.batches]
    /\ pc' = "adapt"
    /\ UNCHANGED << fn_args, world, callbacks, tf_transform_output, train_set,
                    eval_set, model, fit, valHist, serving_model_dir,
                    signatures, written, phases, served >>

(* Line 113, adapt reading one batch of its dataset *)
AdaptBatch ==
    /\ pc = "adapt"
    /\ vectorizer_layer.pending > 0
    /\ vectorizer_layer' = [vectorizer_layer EXCEPT !.pending = @ - 1]
    /\ UNCHANGED << pc, fn_args, world, callbacks, tf_transform_output,
                    train_set, eval_set, model, fit, valHist,
                    serving_model_dir, signatures, written, phases, served >>

(* Line 113, adapt at the end of its dataset: the vocabulary is set *)
AdaptEnd ==
    /\ pc = "adapt"
    /\ vectorizer_layer.pending = 0
    /\ vectorizer_layer' = adapt(vectorizer_layer, vectorizer_dataset)
    /\ pc' = "build"
    /\ UNCHANGED << fn_args, world, callbacks, tf_transform_output, train_set,
                    eval_set, model, fit, valHist, serving_model_dir,
                    signatures, written, phases, served >>

(* Line 116 *)
BuildModel ==
    /\ pc = "build"
    /\ model' = [NoModel EXCEPT !.built = TRUE,
                                !.layers = model_builder(fn_args.hyperparameters)]
    /\ phases' = Append(phases, "build")
    /\ pc' = "fit"
    /\ UNCHANGED << fn_args, world, callbacks, tf_transform_output, train_set,
                    eval_set, vectorizer_layer, fit, valHist,
                    serving_model_dir, signatures, written, served >>

(* Line 119, model.fit entered: one iterator over train_set serves all      *)
(* epochs (steps_per_epoch is given); on_train_begin resets EarlyStopping.  *)
FitBegin ==
    /\ pc = "fit"
    /\ fit' = [NoFit EXCEPT !.iterator = train_set.batches]
    /\ callbacks' = [callbacks EXCEPT !.es_wait = 0, !.es_stopped_epoch = 0,
                                      !.es_best = NegInf]
    /\ model' = [model EXCEPT !.stop_training = FALSE]
    /\ pc' = "fit_epoch"
    /\ UNCHANGED << fn_args, world, tf_transform_output, train_set, eval_set,
                    vectorizer_layer, valHist, serving_model_dir, signatures,
                    written, phases, served >>

(* Whether model.fit runs another epoch: epochs=E not yet run, the input    *)
(* not run out, no callback asked to stop.                                  *)
FitContinues ==
    /\ fit.epoch < fn_args.hyperparameters.epochs
    /\ ~fit.insufficient_data
    /\ ~model.stop_training

EpochBegin ==
    /\ pc = "fit_epoch"
    /\ FitContinues
    /\ fit' = [fit EXCEPT !.step = 0, !.vstep = 0]
    /\ pc' = "fit_train"
    /\ UNCHANGED << fn_args, world, callbacks, tf_transform_output, train_set,
                    eval_set, vectorizer_layer, model, valHist,
                    serving_model_dir, signatures, written, phases, served >>

(* One training step on the next batch: the weights change. *)
TrainStep ==
    /\ pc = "fit_train"
    /\ fit.step < fn_args.train_steps
    /\ fit.iterator > 0
    /\ fit' = [fit EXCEPT !.step = @ + 1, !.iterator = @ - 1]
    /\ model' = [model EXCEPT !.weights = @ + 1]
    /\ UNCHANGED << pc, fn_args, world, callbacks, tf_transform_output,
                    train_set, eval_set, vectorizer_layer, valHist,
                    serving_model_dir, signatures, written, phases, served >>

(* The iterator is at its end before steps_per_epoch steps were made:       *)
(* keras ends the epoch's steps and interrupts training after it.           *)
TrainOutOfData ==
    /\ pc = "fit_train"
    /\ fit.step < fn_args.train_steps
    /\ fit.iterator = 0
    /\ fit' = [fit EXCEPT !.insufficient_data = TRUE]
    /\ pc' = "fit_validate"
    /\ UNCHANGED << fn_args, world, callbacks, tf_transform_output, train_set,
                    eval_set, vectorizer_layer, model, valHist,
                    serving_model_dir, signatures, written, phases, served >>

TrainEpochDone ==
    /\ pc = "fit_train"
    /\ fit.step = fn_args.train_steps
    /\ pc' = "fit_validate"
    /\ UNCHANGED << fn_args, world, callbacks, tf_transform_output, train_set,
                    eval_set, vectorizer_layer, model, fit, valHist,
                    serving_model_dir, signatures, written, phases, served >>

(* Validation reads eval_set from its start in every epoch, validation_steps *)
(* batches or all it has.                                                    *)
ValidationStep ==
    /\ pc = "fit_validate"
    /\ fit.vstep < fn_args.eval_steps
    /\ fit.vstep < eval_set.batches
    /\ fit' = [fit EXCEPT !.vstep = @ + 1]
    /\ UNCHANGED << pc, fn_args, world, callbacks, tf_transform_output,
                    train_set, eval_set, vectorizer_layer, model, valHist,
                    serving_model_dir, signatures, written, phases, served >>

ValidationDone ==
    /\ pc = "fit_validate"
    /\ (fit.vstep = fn_args.eval_steps \/ fit.vstep = eval_set.batches)
    /\ pc' = "fit_epoch_end"
    /\ UNCHANGED << fn_args, world, callbacks, tf_transform_output, train_set,
                    eval_set, vectorizer_layer, model, fit, valHist,
                    serving_model_dir, signatures, written, phases, served >>

(* callbacks.on_epoch_end with this epoch's val_binary_accuracy, in the     *)
(* order of the list: EarlyStopping, then ModelCheckpoint, which saves the  *)
(* whole model to serving_model_dir with no signatures given, so with the   *)
(* default "serving_default" only.                                          *)
EpochEnd ==
    /\ pc = "fit_epoch_end"
    /\ \E acc \in 0..world.acc_levels :
        LET es   == EarlyStopping_on_epoch_end(callbacks, fit.epoch, acc)
            save == ModelCheckpoint_saves(es.cb, acc)
            ckpt == Artifact("ModelCheckpoint", fit.epoch + 1, model.weights,
                             NoSignatures)
        IN  /\ callbacks' = ModelCheckpoint_on_epoch_end(es.cb, acc)
            /\ model' = [model EXCEPT !.stop_training = @ \/ es.stop]
            /\ serving_model_dir' = IF save THEN ckpt ELSE serving_model_dir
            /\ written' = IF save THEN Append(written, ckpt) ELSE written
            /\ valHist' = Append(valHist, acc)
    /\ fit' = [fit EXCEPT !.epoch = @ + 1]
    /\ pc' = "fit_epoch"
    /\ UNCHANGED << fn_args, world, tf_transform_output, train_set, eval_set,
                    vectorizer_layer, signatures, phases, served >>

(* model.fit returns *)
FitReturn ==
    /\ pc = "fit_epoch"
    /\ ~FitContinues
    /\ phases' = Append(phases, "fit")
    /\ pc' = "signature"
    /\ UNCHANGED << fn_args, world, callbacks, tf_transform_output, train_set,
                    eval_set, vectorizer_layer, model, fit, valHist,
                    serving_model_dir, signatures, written, served >>

(* dict.pop(key) on a feature spec that has the key *)
Pop(spec, key) == [k \in DOMAIN spec \ {key} |-> spec[k]]

(* _get_serve_tf_example_fn, lines 64-80: the transform layer kept on the   *)
(* model (line 65).                                                         *)
(* a transform layer of another graph than the one training read *)
serve_tft_layer_other(tft_output) == (tft_output % 2) + 1

serve_tft_layer(tft_output) == tft_output

(* Lines 69-70, run when get_concrete_function traces serve_tf_examples_fn: *)
(* the spec the signature parses requests with.                             *)
(* the label left in the spec requests are parsed with *)
serve_feature_spec_keep_label(tft_output) == raw_feature_spec(tft_output)

serve_feature_spec(tft_output) == Pop(raw_feature_spec(tft_output), LABEL_KEY)

(* Lines 130-134.  Tracing raises KeyError when the raw feature spec has no *)
(* LABEL_KEY: run_fn ends there, before line 135.                           *)
BuildSignature ==
    /\ pc = "signature"
    /\ model' = [model EXCEPT !.tft_layer = serve_tft_layer(tf_transform_output)]
    /\ IF LABEL_KEY \in DOMAIN raw_feature_spec(tf_transform_output)
       THEN /\ signatures' =
                [k \in {"serving_default"} |->
                    [fn           |-> "serve_tf_examples_fn",
                     feature_spec |-> serve_feature_spec(tf_transform_output),
                     tft_layer    |-> model'.tft_layer]]
            /\ pc' = "save"
       ELSE /\ signatures' = signatures
            /\ pc' = "failed"
    /\ UNCHANGED << fn_args, world, callbacks, tf_transform_output, train_set,
                    eval_set, vectorizer_layer, fit, valHist,
                    serving_model_dir, written, phases, served >>

(* Line 135 *)
SaveModel ==
    /\ pc = "save"
    /\ LET saved == Artifact("save", fit.epoch, model.weights, signatures)
       IN  /\ serving_model_dir' = saved
           /\ written' = Append(written, saved)
    /\ phases' = Append(phases, "export")
    /\ pc' = "done"
    /\ UNCHANGED << fn_args, world, callbacks, tf_transform_output, train_set,
                    eval_set, vectorizer_layer, model, fit, valHist,
                    signatures, served >>

(* serve_tf_examples_fn, lines 68-78, called through the exported           *)
(* "serving_default" on a serialized example that carries the raw features  *)
(* and, or not, the label.                                                  *)
serve_tf_examples_fn(artifact, text, with_label) ==
    LET feature_spec == artifact.serving.feature_spec
        parsed == [text |-> text]
        transformed_features == transform_features_layer(artifact.serving.tft_layer, parsed)
    IN  \* the exported model called on the transformed features (line 78)
        LET out == CHOOSE o \in {ModelCall(model.layers, artifact.weights,
                                  vectorizer_layer, transformed_features)} : TRUE
        IN
        [done |-> TRUE, text |-> text, with_label |-> with_label,
         parse_spec |-> feature_spec,
         text_xf |-> transformed_features.text_xf,
         ids_len |-> out.ids_len, ids_min |-> out.ids_min,
         ids_max |-> out.ids_max, in_range |-> out.in_range,
         width |-> out.width, prediction |-> out.prediction]

Serve ==
    /\ pc = "done"
    /\ \E text \in world.texts, with_label \in BOOLEAN :
        \E result \in {serve_tf_examples_fn(serving_model_dir, text, with_label)} :
            served' = result
    /\ UNCHANGED << pc, fn_args, world, callbacks, tf_transform_output,
                    train_set, eval_set, vectorizer_layer, model, fit,
                    valHist, serving_model_dir, signatures, written, phases >>

Next ==
    \/ DefineCallbacks
    \/ LoadTransformGraph
    \/ CreateTrainSet
    \/ CreateEvalSet
    \/ CreateVectorizer
    \/ AdaptBatch
    \/ AdaptEnd
    \/ BuildModel
    \/ FitBegin
    \/ EpochBegin
    \/ TrainStep
    \/ TrainOutOfData
    \/ TrainEpochDone
    \/ ValidationStep
    \/ ValidationDone
    \/ EpochEnd
    \/ FitReturn
    \/ BuildSignature
    \/ SaveModel
    \/ Serve

Spec == Init /\ [][Next]_vars

(* run_fn is one sequential call: each of its steps is taken. *)
FairSpec == Spec /\ WF_vars(Next)

(* Runs long enough for EarlyStopping's patience to run out: validation     *)
(* accuracy at two levels, up to Patience + 2 epochs, one or two steps per  *)
(* epoch over one batch per pass.                                           *)
InitLong ==
    \E E \in 1..(Patience + 2), ts \in 1..2 :
        Start(FnArgs(Hyperparameters(E, 1, 1, 1, 1, 2), ts, 1, 1,
                     Files(1, 1, 3), Files(2, 1, 5)),
              [acc_levels |-> 1, texts |-> {Text(1, 1)}])

SpecLong == InitLong /\ [][Next]_vars

(* One-epoch runs over the hyperparameter mappings model_builder reads. *)
InitBuild ==
    \E es \in 1..MaxUnits, lu \in 1..MaxUnits, hl \in 0..MaxHidden,
       du \in 1..MaxUnits, dr \in {0, 5}, ts \in 1..2 :
        Start(FnArgs(Hyperparameters(1, es, lu, hl, du, dr), ts, 1, 1,
                     Files(1, 1, 3), Files(2, 1, 5)),
              [acc_levels |-> 0, texts |-> {Text(1, 1)}])

SpecBuild == InitBuild /\ [][Next]_vars

(* One-epoch runs over training corpora with fewer and more distinct tokens *)
(* than max_tokens, serving texts shorter and longer than                   *)
(* output_sequence_length, of frequent and of rare tokens.                  *)
InitVec ==
    \E ts \in 1..2, path \in 1..2,
       tokens \in {1, MaxTokens - 3, MaxTokens - 2, MaxTokens + 1} :
        Start(FnArgs(Hyperparameters(1, 1, 1, 1, 1, 2), ts, 1, path,
                     Files(1, 1, tokens), Files(2, 1, 5)),
              [acc_levels |-> 1,
               texts |-> {Text(0, 1), Text(1, 1),
                          Text(OutputSequenceLength - 1, 7),
                          Text(OutputSequenceLength, MaxTokens - 20),
                          Text(OutputSequenceLength + 1, MaxTokens - 400)}])

SpecVec == InitVec /\ [][Next]_vars

----------------------------------------------------------------------------
(* Properties *)

Happened(p) == \E i \in DOMAIN phases : phases[i] = p

E_epochs == fn_args.hyperparameters.epochs

InFit == pc \in {"fit_epoch", "fit_train", "fit_validate", "fit_epoch_end"}

(* C1, as claimed: in a run of run_fn that returns normally the phases are, *)
(* in order, transform graph loaded, datasets created, model built,         *)
(* model.fit ended, model exported; the artifact at serving_model_dir is    *)
(* then the one of the final model.save, it carries "serving_default", and  *)
(* nothing with a signature is written there before model.fit has ended.    *)
C1_NoSignatureBeforeFitEnds ==
    /\ pc = "done" =>
        /\ phases = << "load", "datasets", "build", "fit", "export" >>
        /\ serving_model_dir.writer = "save"
        /\ "serving_default" \in serving_model_dir.signatures
        /\ written[Len(written)] = serving_model_dir
    /\ \A i \in DOMAIN written :
        written[i].signatures # {} => Happened("fit")

(* C1: the phases are in that order and the artifact at serving_model_dir   *)
(* on return is the one of the final model.save, the last write, whose      *)
(* "serving_default" is serve_tf_examples_fn; no write with that function   *)
(* as its signature happens before model.fit has ended, the writes before   *)
(* being ModelCheckpoint's, whose "serving_default" is the model's own call *)
(* on transformed features.                                                 *)
C1_PhasesThenExport ==
    /\ pc = "done" =>
        /\ phases = << "load", "datasets", "build", "fit", "export" >>
        /\ serving_model_dir.writer = "save"
        /\ "serving_default" \in serving_model_dir.signatures
        /\ serving_model_dir.serving.fn = "serve_tf_examples_fn"
        /\ written[Len(written)] = serving_model_dir
    /\ \A i \in DOMAIN written :
        /\ written[i].serving.fn = "serve_tf_examples_fn"
             => Happened("fit") /\ written[i].writer = "save" /\ i = Len(written)
        /\ written[i].writer = "ModelCheckpoint"
             => /\ written[i].signatures = {"serving_default"}
                /\ written[i].serving = DefaultServing
    /\ (InFit /\ valHist # << >>) =>
        /\ serving_model_dir.writer = "ModelCheckpoint"
        /\ serving_model_dir.signatures = {"serving_default"}
    /\ \A i \in DOMAIN phases : \A j \in DOMAIN phases :
        (phases[i] = "fit" /\ phases[j] = "export") => i < j

C1_Witness ==
    /\ pc = "done"
    /\ Len(written) >= 3
    /\ written[1].writer = "ModelCheckpoint"

(* C2: the serving function transforms the request's raw features with the *)
(* layer of the transform graph whose transformed feature spec input_fn     *)
(* read the training and evaluation records with, and its result is the     *)
(* trained model applied to that transform of the request.                  *)
C2_ServeEqualsTrainedModelOnTransform ==
    served.done =>
        LET path == fn_args.transform_graph_path
            xf   == transform_features_layer(path, [text |-> served.text])
        IN  /\ train_set.graph = path
            /\ eval_set.graph = path
            /\ model.tft_layer = path
            /\ serving_model_dir.serving.tft_layer = train_set.graph
            /\ serving_model_dir.weights = model.weights
            /\ served.text_xf = xf.text_xf
            /\ served.prediction =
                 ModelCall(model.layers, model.weights, vectorizer_layer, xf).prediction

C2_Witness ==
    /\ served.done
    /\ fn_args.transform_graph_path = 2
    /\ model.weights >= 2
    /\ served.text.len = 2

(* The epochs Len(h)-9 .. Len(h) each failed to improve on the best value   *)
(* of the epochs before them.                                               *)
TenWithoutImprovement(h) ==
    /\ Len(h) > 10
    /\ \A k \in (Len(h) - 9)..Len(h) : h[k] <= SeqMax(SubSeq(h, 1, k - 1))

(* C3, as claimed: model.fit stops at the end of the first epoch at which   *)
(* val_binary_accuracy has not improved on its best earlier value for 10    *)
(* epochs in a row, and otherwise runs until tuner/epochs epochs have run.  *)
C3_StopsOnlyByPatienceOrAfterAllEpochs ==
    /\ (InFit \/ Happened("fit")) =>
         (model.stop_training <=> TenWithoutImprovement(valHist))
    /\ Happened("fit") =>
         (TenWithoutImprovement(valHist) \/ Len(valHist) = E_epochs)

(* C3 with the third way model.fit ends: the training input ran out.        *)
C3_StopsByPatienceEpochsOrInput ==
    /\ (InFit \/ Happened("fit")) =>
         (model.stop_training <=> TenWithoutImprovement(valHist))
    /\ Happened("fit") =>
         \/ TenWithoutImprovement(valHist)
         \/ Len(valHist) = E_epochs
         \/ fit.insufficient_data /\ fit.iterator = 0

C3_EarlyStopReached ==
    /\ Happened("fit")
    /\ model.stop_training
    /\ Len(valHist) < E_epochs

(* C4: during model.fit a checkpoint is written at the end of an epoch      *)
(* exactly when that epoch's val_binary_accuracy is strictly greater than   *)
(* that of every earlier epoch, so the checkpoint on disk is of an epoch    *)
(* whose val_binary_accuracy is the maximum seen so far.                    *)
CheckpointedAt(e) ==
    \E i \in DOMAIN written :
        written[i].writer = "ModelCheckpoint" /\ written[i].epoch = e

C4_CheckpointIffStrictlyBest ==
    /\ \A e \in 1..Len(valHist) :
        CheckpointedAt(e) <=> (\A d \in 1..(e - 1) : valHist[e] > valHist[d])
    /\ serving_model_dir.writer = "ModelCheckpoint" =>
        /\ serving_model_dir.epoch \in 1..Len(valHist)
        /\ \A d \in 1..Len(valHist) : valHist[serving_model_dir.epoch] >= valHist[d]
    /\ (valHist # << >> /\ pc # "done") => serving_model_dir.writer = "ModelCheckpoint"

C4_Witness ==
    /\ InFit
    /\ Len(valHist) = 3
    /\ valHist[1] = valHist[2]
    /\ valHist[3] > valHist[1]
    /\ serving_model_dir.epoch = 3

(* C5: model_builder yields Input "text_xf", the vectorizer, an Embedding   *)
(* of output_dim embedding_size, a bidirectional LSTM of lstm_units, then   *)
(* exactly hidden_layers times Dense(dense_units, relu) and                 *)
(* Dropout(dropout_rate), then one sigmoid unit; the output has width 1.    *)
C5_ModelBuilderChain ==
    model.built =>
        LET hp == fn_args.hyperparameters
            n  == hp.hidden_layers
            L  == model.layers
        IN  /\ Len(L) = 5 + 2 * n
            /\ L[1].kind = "Input" /\ L[1].name = "text_xf"
            /\ L[2].kind = "TextVectorization"
            /\ L[3].kind = "Embedding" /\ L[3].units = hp.embedding_size
            /\ L[4].kind = "BidirectionalLSTM" /\ L[4].units = hp.lstm_units
            /\ \A i \in 1..n :
                /\ L[3 + 2 * i].kind = "Dense"
                /\ L[3 + 2 * i].units = hp.dense_units
                /\ L[3 + 2 * i].activation = "relu"
                /\ L[4 + 2 * i].kind = "Dropout"
                /\ L[4 + 2 * i].rate = hp.dropout_rate
            /\ L[Len(L)].kind = "Dense"
            /\ L[Len(L)].units = 1
            /\ L[Len(L)].activation = "sigmoid"
            /\ (n = 0 => L[5].activation = "sigmoid")
            /\ (served.done => served.width = 1)

C5_Witness ==
    /\ model.built
    /\ served.done
    /\ fn_args.hyperparameters.hidden_layers = 0
    /\ fn_args.hyperparameters.lstm_units = 2

(* C6: the spec serve_tf_examples_fn parses requests with is the raw        *)
(* feature spec without the key "class", every other key as it was, so a    *)
(* request without the label is answered; when the raw feature spec has no  *)
(* "class" key, building the signature fails and model.save is not reached. *)
C6_ServingSpecDropsLabel ==
    LET raw == raw_feature_spec(fn_args.transform_graph_path)
    IN  /\ served.done =>
            /\ DOMAIN served.parse_spec = DOMAIN raw \ {"class"}
            /\ \A k \in DOMAIN served.parse_spec : served.parse_spec[k] = raw[k]
            /\ "class" \in DOMAIN raw
        /\ ("class" \notin DOMAIN raw /\ Happened("fit") /\ pc # "signature") =>
            /\ pc = "failed"
            /\ signatures = NoSignatures
            /\ ~Happened("export")
            /\ \A i \in DOMAIN written : written[i].writer # "save"
        /\ pc \in {"save", "done"} =>
            /\ DOMAIN signatures = {"serving_default"}
            /\ LABEL_KEY \notin DOMAIN signatures["serving_default"].feature_spec

C6_Witness ==
    /\ served.done
    /\ ~served.with_label
    /\ fn_args.transform_graph_path = 2
    /\ "title" \in DOMAIN served.parse_spec

C6_FailureReached ==
    /\ pc = "failed"
    /\ Happened("fit")
    /\ serving_model_dir.writer = "ModelCheckpoint"

(* The bounds of C7: both datasets are the files repeated exactly           *)
(* tuner/epochs times, adapt reads no more than that, model.fit runs at     *)
(* most tuner/epochs epochs of at most train_steps training steps and       *)
(* eval_steps validation steps, and then the model is saved.                *)
C7_Bounded ==
    /\ train_set.ok =>
        /\ train_set.num_epochs = E_epochs
        /\ train_set.batches = E_epochs * fn_args.train_files.batches
    /\ eval_set.ok =>
        /\ eval_set.num_epochs = E_epochs
        /\ eval_set.batches = E_epochs * fn_args.eval_files.batches
    /\ vectorizer_layer.pending >= 0
    /\ vectorizer_layer.pending <= E_epochs * fn_args.train_files.batches
    /\ fit.epoch <= E_epochs
    /\ Len(valHist) = fit.epoch
    /\ fit.step <= fn_args.train_steps
    /\ fit.vstep <= fn_args.eval_steps
    /\ model.weights <= E_epochs * fn_args.train_steps
    /\ pc = "done" => serving_model_dir.writer = "save"
    /\ pc = "failed" =>
        \/ ~train_set.ok
        \/ LABEL_KEY \notin DOMAIN raw_feature_spec(tf_transform_output)

(* An upper bound on the steps run_fn still has to make: the rest of adapt, *)
(* of each epoch not yet run, and of the export.                            *)
StepsPerEpoch == fn_args.train_steps + fn_args.eval_steps + 4

AfterEpochs(n) == n * StepsPerEpoch + 3

TrainPasses == E_epochs * fn_args.train_files.batches

StepsLeft ==
    CASE pc = "start"         -> AfterEpochs(E_epochs) + TrainPasses + 8
      [] pc = "load"          -> AfterEpochs(E_epochs) + TrainPasses + 7
      [] pc = "train_set"     -> AfterEpochs(E_epochs) + TrainPasses + 6
      [] pc = "eval_set"      -> AfterEpochs(E_epochs) + TrainPasses + 5
      [] pc = "vectorizer"    -> AfterEpochs(E_epochs) + TrainPasses + 4
      [] pc = "adapt"         -> AfterEpochs(E_epochs) + vectorizer_layer.pending + 3
      [] pc = "build"         -> AfterEpochs(E_epochs) + 2
      [] pc = "fit"           -> AfterEpochs(E_epochs) + 1
      [] pc = "fit_epoch"     -> AfterEpochs(E_epochs - fit.epoch)
      [] pc = "fit_train"     -> AfterEpochs(E_epochs - fit.epoch - 1)
                                 + (fn_args.train_steps - fit.step)
                                 + fn_args.eval_steps + 3
      [] pc = "fit_validate"  -> AfterEpochs(E_epochs - fit.epoch - 1)
                                 + (fn_args.eval_steps - fit.vstep) + 2
      [] pc = "fit_epoch_end" -> AfterEpochs(E_epochs - fit.epoch - 1) + 1
      [] pc = "signature"     -> 2
      [] pc = "save"          -> 1
      [] OTHER                -> 0

Returned == pc \in {"done", "failed"}

(* C7: run_fn terminates within the bounds above: the steps left never go  *)
(* below zero, every step before the return lowers them, and run_fn is     *)
(* never stuck before it has returned.                                      *)
C7_Terminates ==
    /\ []C7_Bounded
    /\ [](StepsLeft >= 0)
    /\ [](~Returned => ENABLED Next)
    /\ [][~Returned => StepsLeft' < StepsLeft]_vars

(* The same as a property of the fair runs *)
C7_EventuallyReturns == <>Returned

C7_Witness ==
    /\ pc = "done"
    /\ fit.epoch = MaxEpochs
    /\ model.weights = MaxEpochs * MaxSteps

(* C8, as claimed: the final model.save goes to the path of the checkpoints *)
(* and is the last write; the exported model has the weights of the last    *)
(* epoch, and whenever the last epoch is not the one with the best          *)
(* val_binary_accuracy the exported weights differ from the checkpointed    *)
(* ones.                                                                    *)
LastEpochNotBest ==
    \E d \in DOMAIN valHist : valHist[d] > valHist[Len(valHist)]

C8_ExportIsLastEpochNotBestCheckpoint ==
    pc = "done" =>
        /\ written[Len(written)] = serving_model_dir
        /\ serving_model_dir.writer = "save"
        /\ serving_model_dir.weights = model.weights
        /\ serving_model_dir.epoch = Len(valHist)
        /\ written[Len(written) - 1].writer = "ModelCheckpoint"
        /\ LastEpochNotBest =>
             serving_model_dir.weights # written[Len(written) - 1].weights

(* C8 for the runs whose training input did not run out *)
C8_WhenInputSuffices ==
    pc = "done" =>
        /\ written[Len(written)] = serving_model_dir
        /\ serving_model_dir.writer = "save"
        /\ serving_model_dir.weights = model.weights
        /\ serving_model_dir.epoch = Len(valHist)
        /\ written[Len(written) - 1].writer = "ModelCheckpoint"
        /\ (LastEpochNotBest /\ ~fit.insufficient_data) =>
             serving_model_dir.weights # written[Len(written) - 1].weights

(* C9: adapt is called exactly once, on the text of train_set, before the   *)
(* model is built and before any training step; the vocabulary is that of   *)
(* the training files and stays so through model.fit and the export.        *)
C9_VocabularyFromTrainingDataOnly ==
    /\ vectorizer_layer.adapt_calls <= 1
    /\ vectorizer_layer.adapt_calls = 0 =>
        /\ ~model.built
        /\ model.weights = 0
        /\ fit = NoFit
        /\ pc \in {"start", "load", "train_set", "eval_set", "vectorizer",
                   "adapt", "failed"}
    /\ vectorizer_layer.adapt_calls = 1 =>
        /\ vectorizer_layer.adapted_on = fn_args.train_files.id
        /\ vectorizer_layer.adapted_on # fn_args.eval_files.id
        /\ vectorizer_layer.vocab_size = Min(fn_args.train_files.tokens + 2, 5000)
    /\ (model.built \/ InFit \/ pc \in {"signature", "save", "done"}) =>
        vectorizer_layer.adapt_calls = 1

C9_Witness ==
    /\ pc = "done"
    /\ served.done
    /\ vectorizer_layer.adapt_calls = 1
    /\ model.weights > 0

(* C10: the vectorizer has max_tokens 5000 and output_sequence_length 500,  *)
(* the Embedding input_dim 5000; for every text the vectorized sequence has *)
(* exactly 500 ids, each in 0..4999, and every embedding lookup is in range.*)
C10_TokenIdsIndexTheEmbedding ==
    /\ vectorizer_layer.adapt_calls = 1 =>
        /\ vectorizer_layer.max_tokens = 5000
        /\ vectorizer_layer.output_sequence_length = 500
        /\ vectorizer_layer.vocab_size <= 5000
    /\ model.built => EmbeddingOf(model.layers).input_dim = 5000
    /\ served.done =>
        /\ served.ids_len = 500
        /\ served.ids_min >= 0
        /\ served.ids_max <= 4999
        /\ served.in_range

C10_Witness ==
    /\ served.done
    /\ served.ids_max = 4999
    /\ served.ids_min = 1
    /\ served.text.len > 500

====
